---- MODULE Spec2Model ----
(***************************************************************************)
(* Model of authorizeAndPrice (src/auth.ts) over the Mongoose schema of    *)
(* src/unnamed/part_000.  One evaluation is a pipeline of three store      *)
(* lookups (Charger.findById, UserGroup.find, Tariff.find); each lookup is *)
(* one action whose answer is drawn from the documents the store may hold. *)
(*                                                                         *)
(* Numbers.  ratePerKwh and rateMultiplier are JavaScript numbers.  The    *)
(* model counts multipliers in halves (MultiplierUnit steps per 1.0) and   *)
(* rates in whole multiples of MultiplierUnit, so that rate * multiplier   *)
(* is an exact integer here, as it is exact in IEEE doubles for the same   *)
(* values.                                                                 *)
(***************************************************************************)
EXTENDS Integers, Sequences, FiniteSets

VARIABLES
    pc,                 \* position in authorizeAndPrice
    hour,               \* time.getHours() of the `time` argument
    lookups,            \* store queries issued so far, in order
    charger,            \* const charger (Null until found)
    dbGroups,           \* UserGroup collection as answered by UserGroup.find
    userGroups,         \* const userGroups
    authorizedGroups,   \* const authorizedGroups
    dbTariffs,          \* Tariff collection as answered by Tariff.find
    applicableTariffs,  \* const applicableTariffs
    result,             \* the resolved Result (NoResult while running)
    thrown              \* what threw inside the try block ("none" if nothing)

vars == <<pc, hour, lookups, charger, dbGroups, userGroups, authorizedGroups,
          dbTariffs, applicableTariffs, result, thrown>>

-----------------------------------------------------------------------------
(* Bounds of the model. *)

MaxHour == 2        \* hours 0..MaxHour stand for getHours() in 0..23
MaxTariffs == 2     \* Tariff documents in the store
MaxRules == 2       \* timeRules per tariff

(* One multiplier step is 1/MultiplierUnit: 1 is 0.5 ("half price"). *)
MultiplierUnit == 2

-----------------------------------------------------------------------------
(* Identities and documents. *)

Users == {"U1", "U2"}
GroupIds == {"G1", "G2"}
GroupOrder == <<"G1", "G2">>
SiteIds == {"S1", "S2"}
ChargerIds == {"C1", "C2"}

userId == "U1"
chargerId == "C1"

Hours == 0..MaxHour

Null == [null |-> TRUE]

AccessType == {"public", "communal", "protected", "private"}
BillableType == {"billable", "non_billable"}
Undefined == "undefined"

(* charger.site after .populate("site"): the Site document when it exists, *)
(* null when the referenced site is missing; a store that does not         *)
(* populate hands back the bare ObjectId.                                  *)
SiteRef == {[kind |-> k, _id |-> s] : k \in {"ObjectId", "Document"}, s \in SiteIds}

ICharger == [accessType : AccessType,
             billableType : BillableType \cup {Undefined},
             site : SiteRef \cup {Null}]

IUserGroup == [users : SUBSET Users, accessibleSites : SUBSET SiteIds]

TimeRule == [startHour : Hours, endHour : Hours, rateMultiplier : -1..3]

SeqsUpTo(S, n) == UNION {[1..k -> S] : k \in 0..n}

(* toString() of an ObjectId is its hex string; toString() of a populated  *)
(* Mongoose document is the rendering of the whole document.               *)
ObjectIdToString(id) == <<"hex", id>>
DocumentToString(doc) == <<"inspect", doc._id>>

SiteToString(site) ==
    IF site.kind = "ObjectId" THEN ObjectIdToString(site._id)
                              ELSE DocumentToString(site)

-----------------------------------------------------------------------------
(* Result values. *)

NoResult == [pending |-> TRUE]
Granted(rate) == [allowed |-> TRUE, ratePerKwh |-> rate]
Denied(reason) == [allowed |-> FALSE, reason |-> reason]

ChargerNotFound == "Charger not found"
NoGroupMembership == "User has no group membership"
SiteAccessDenied == "User's groups do not have access to this site"
NoPricingAvailable == "No pricing tariff available for this charger"
SystemError == "System error occurred"

OnErrorFailOpen == Granted(0)

(* catch (error) { return { allowed: false, reason: ... } } *)
OnError == Denied(SystemError)

-----------------------------------------------------------------------------
(* Access resolution. *)

IsPrivateBillable(c) ==
    c.accessType = "private" /\ c.billableType = "billable"

IsPrivateNonBillable(c) ==
    c.accessType = "private" /\ c.billableType = "non_billable"

(* UserGroup.find({ users: userId }) *)
FindUserGroups(db, user) ==
    LET Member(g) == user \in db[g].users
        Doc(g) == [_id |-> g, accessibleSites |-> db[g].accessibleSites]
        ids == SelectSeq(GroupOrder, Member)
    IN  [i \in 1..Len(ids) |-> Doc(ids[i])]

HasNoGroupsNever(groups) == Len(groups) < 0

HasNoGroups(groups) == Len(groups) = 0

(* charger.site.toString() on a null site throws as soon as the callback   *)
(* of some() runs, that is for the first group with a non-empty list.      *)
SiteCompareThrows(groups, c) ==
    /\ c.site = Null
    /\ \E i \in 1..Len(groups) : groups[i].accessibleSites # {}

HasSiteAccess(group, c) ==
    \E siteId \in group.accessibleSites :
        ObjectIdToString(siteId) = SiteToString(c.site)

FilterAuthorized(groups, c) ==
    LET Ok(g) == HasSiteAccess(g, c) IN SelectSeq(groups, Ok)

-----------------------------------------------------------------------------
(* Rate resolution. *)

GroupIdsOf(groups) == {groups[i]._id : i \in 1..Len(groups)}

FindTariffsAnyGroup(db, cid, groups) ==
    LET Match(t) == t.charger = cid IN SelectSeq(db, Match)

(* Tariff.find({ charger: chargerId, group: { $in: ... } }) *)
FindTariffs(db, cid, groups) ==
    LET Match(t) == t.charger = cid /\ t.group \in GroupIdsOf(groups)
    IN  SelectSeq(db, Match)

RuleMatches(rule, currentHour) ==
    currentHour >= rule.startHour /\ currentHour < rule.endHour

(* tariff.timeRules.find(...): index of the first matching rule, 0 if none *)
FindTimeRule(rules, currentHour) ==
    LET hits == {i \in 1..Len(rules) : RuleMatches(rules[i], currentHour)}
    IN  IF hits = {} THEN 0
        ELSE CHOOSE i \in hits : \A j \in hits : i <= j

Times(rate, multiplier) == (rate * multiplier) \div MultiplierUnit

EffectiveRateAsDiscount(tariff, currentHour) ==
    LET k == FindTimeRule(tariff.timeRules, currentHour)
    IN  IF k = 0 THEN tariff.ratePerKwh
        ELSE tariff.ratePerKwh
               - Times(tariff.ratePerKwh, tariff.timeRules[k].rateMultiplier)

EffectiveRate(tariff, currentHour) ==
    LET k == FindTimeRule(tariff.timeRules, currentHour)
    IN  IF k = 0 THEN tariff.ratePerKwh
        ELSE Times(tariff.ratePerKwh, tariff.timeRules[k].rateMultiplier)

InitialBestRate(tariffs, currentHour) == tariffs[1].ratePerKwh

RECURSIVE LowestFrom(_, _, _, _)
LowestFrom(tariffs, currentHour, i, best) ==
    IF i > Len(tariffs) THEN best
    ELSE LET effectiveRate == EffectiveRate(tariffs[i], currentHour)
         IN  LowestFrom(tariffs, currentHour, i + 1,
                        IF effectiveRate < best THEN effectiveRate ELSE best)

BestRate(tariffs, currentHour) ==
    LowestFrom(tariffs, currentHour, 1, InitialBestRate(tariffs, currentHour))

-----------------------------------------------------------------------------
(* What the store may hold.  Each specification draws the lookups' answers *)
(* from its own universe: Spec is wide on chargers and groups, SpecRate    *)
(* on tariffs of several groups, SpecRule on the time rules of one tariff. *)

Rates == {k * MultiplierUnit : k \in -1..2}

ITariff(chargers, rates, ruleSeqs) ==
    [charger : chargers, group : GroupIds, ratePerKwh : rates, timeRules : ruleSeqs]

Chargers == ICharger
GroupStores == [GroupIds -> IUserGroup]
TariffStores ==
    SeqsUpTo(ITariff(ChargerIds, {MultiplierUnit}, {<<>>}), MaxTariffs)

ChargersRate ==
    {c \in ICharger :
        /\ <<c.accessType, c.billableType>> \in
               {<<"public", "billable">>, <<"private", "non_billable">>}
        /\ c.site # Null => c.site._id = "S1"}
GroupStoresRate ==
    [GroupIds -> {g \in IUserGroup :
                    <<g.users, g.accessibleSites>> \in
                        {<<{"U1"}, {"S1"}>>, <<{"U1"}, {"S2"}>>, <<{"U2"}, {"S1"}>>}}]
RulesRate ==
    {r \in TimeRule : r.startHour = 0 /\ r.endHour = 1 /\ r.rateMultiplier # 2}
TariffStoresRate ==
    SeqsUpTo(ITariff({chargerId}, Rates, SeqsUpTo(RulesRate, 1)), MaxTariffs)

RulesRule == {r \in TimeRule : r.rateMultiplier \in {0, 1, 3}}
TariffStoresRule ==
    SeqsUpTo(ITariff({chargerId}, {2 * MultiplierUnit}, SeqsUpTo(RulesRule, MaxRules)), 1)

-----------------------------------------------------------------------------
(* authorizeAndPrice, one action per store lookup and the code up to the   *)
(* next lookup or return. *)

Return(r) == result' = r /\ pc' = "done" /\ UNCHANGED thrown
Catch(what) == result' = OnError /\ pc' = "done" /\ thrown' = what
Continue(next) == pc' = next /\ UNCHANGED <<result, thrown>>

GetCharger(chargers) ==
    /\ pc = "getCharger"
    /\ lookups' = Append(lookups, "Charger.findById")
    /\ \/ Catch("Charger.findById") /\ UNCHANGED charger
       \/ Return(Denied(ChargerNotFound)) /\ UNCHANGED charger
       \/ \E c \in chargers :
            /\ charger' = c
            /\ IF IsPrivateNonBillable(c)
               THEN Return(Granted(0))
               ELSE Continue("findUserGroups")
    /\ UNCHANGED <<hour, dbGroups, userGroups, authorizedGroups,
                   dbTariffs, applicableTariffs>>

CheckGroups(stores) ==
    /\ pc = "findUserGroups"
    /\ lookups' = Append(lookups, "UserGroup.find")
    /\ \/ Catch("UserGroup.find") /\ UNCHANGED <<dbGroups, userGroups, authorizedGroups>>
       \/ \E db \in stores :
            LET groups == FindUserGroups(db, userId)
                authorized == FilterAuthorized(groups, charger)
            IN  /\ dbGroups' = db
                /\ userGroups' = groups
                /\ IF HasNoGroups(groups)
                   THEN Return(Denied(NoGroupMembership)) /\ UNCHANGED authorizedGroups
                   ELSE IF SiteCompareThrows(groups, charger)
                   THEN Catch("charger.site.toString") /\ UNCHANGED authorizedGroups
                   ELSE IF Len(authorized) = 0
                   THEN Return(Denied(SiteAccessDenied)) /\ authorizedGroups' = authorized
                   ELSE /\ authorizedGroups' = authorized
                        /\ Continue("findTariffs")
    /\ UNCHANGED <<hour, charger, dbTariffs, applicableTariffs>>

PriceTariffs(stores) ==
    /\ pc = "findTariffs"
    /\ lookups' = Append(lookups, "Tariff.find")
    /\ \/ Catch("Tariff.find") /\ UNCHANGED <<dbTariffs, applicableTariffs>>
       \/ \E db \in stores :
            LET tariffs == FindTariffs(db, chargerId, authorizedGroups)
            IN  /\ dbTariffs' = db
                /\ applicableTariffs' = tariffs
                /\ IF Len(tariffs) = 0
                   THEN Return(Denied(NoPricingAvailable))
                   ELSE Return(Granted(BestRate(tariffs, hour)))
    /\ UNCHANGED <<hour, charger, dbGroups, userGroups, authorizedGroups>>

Init ==
    /\ pc = "getCharger"
    /\ hour \in Hours
    /\ lookups = <<>>
    /\ charger = Null
    /\ dbGroups = [g \in GroupIds |-> [users |-> {}, accessibleSites |-> {}]]
    /\ userGroups = <<>>
    /\ authorizedGroups = <<>>
    /\ dbTariffs = <<>>
    /\ applicableTariffs = <<>>
    /\ result = NoResult
    /\ thrown = "none"

authorizeAndPrice(chargers, groupStores, tariffStores) ==
    \/ GetCharger(chargers)
    \/ CheckGroups(groupStores)
    \/ PriceTariffs(tariffStores)

Next == authorizeAndPrice(Chargers, GroupStores, TariffStores)
NextRate == authorizeAndPrice(ChargersRate, GroupStoresRate, TariffStoresRate)
NextRule == authorizeAndPrice(ChargersRate, GroupStoresRate, TariffStoresRule)

Spec == Init /\ [][Next]_vars
SpecRate == Init /\ [][NextRate]_vars
SpecRule == Init /\ [][NextRule]_vars

-----------------------------------------------------------------------------
(* Vocabulary of the properties: the store's facts, stated on the          *)
(* documents themselves and not through the operators of the evaluation.   *)

Done == pc = "done"
Asked(query) == \E i \in 1..Len(lookups) : lookups[i] = query
ChargerExists == charger # Null
FreeCharger == charger.accessType = "private" /\ charger.billableType = "non_billable"
PricedCharger == ChargerExists /\ ~FreeCharger
HasSite == charger.site # Null
Answered(query) == Asked(query) /\ thrown # query
GroupsLoaded == Answered("UserGroup.find")
TariffsLoaded == Answered("Tariff.find")

MemberGroups == {g \in GroupIds : userId \in dbGroups[g].users}
GroupsWithAccess ==
    {g \in MemberGroups : HasSite /\ charger.site._id \in dbGroups[g].accessibleSites}

(* Tariffs of the store for (this charger, a group with access). *)
Candidates ==
    {i \in 1..Len(dbTariffs) :
        dbTariffs[i].charger = chargerId /\ dbTariffs[i].group \in GroupsWithAccess}

InWindow(rule) == hour \in rule.startHour..(rule.endHour - 1)

FirstInWindow(rules) ==
    {i \in 1..Len(rules) :
        InWindow(rules[i]) /\ \A j \in 1..(i - 1) : ~InWindow(rules[j])}

(* Base rate times the multiplier of the first rule in whose window the    *)
(* hour falls, the base rate when there is none.                           *)
RateAtHour(tariff) ==
    IF FirstInWindow(tariff.timeRules) = {} THEN tariff.ratePerKwh
    ELSE LET k == CHOOSE i \in FirstInWindow(tariff.timeRules) : TRUE
         IN  (tariff.ratePerKwh * tariff.timeRules[k].rateMultiplier) \div MultiplierUnit

CandidateRates == {RateAtHour(dbTariffs[i]) : i \in Candidates}
CandidateBaseRates == {dbTariffs[i].ratePerKwh : i \in Candidates}
Minimum(S) == CHOOSE r \in S : \A q \in S : r <= q

NonNegative(tariff) ==
    /\ tariff.ratePerKwh >= 0
    /\ \A k \in 1..Len(tariff.timeRules) : tariff.timeRules[k].rateMultiplier >= 0

-----------------------------------------------------------------------------
(* C1: with a priced charger, a group of the user with access to its site  *)
(* and at least one candidate tariff (rates and multipliers non-negative,  *)
(* as the data model has them), the evaluation grants exactly the minimum  *)
(* of the candidates' rates at the hour.                                   *)
C1_GrantsMinimumRate ==
    (/\ Done /\ PricedCharger /\ GroupsLoaded /\ TariffsLoaded
     /\ GroupsWithAccess # {} /\ Candidates # {}
     /\ \A i \in Candidates : NonNegative(dbTariffs[i]))
        => result = Granted(Minimum(CandidateRates))

(* The store has no candidate tariff: Tariff.find answered with none, or   *)
(* the evaluation ended without asking, in which case its outcome is the   *)
(* same for every Tariff collection, the empty one included.               *)
NoCandidateTariff ==
    IF TariffsLoaded THEN Candidates = {} ELSE ~Asked("Tariff.find")

(* C2: with a priced charger and a group of the user with access to its    *)
(* site, but no candidate tariff, the evaluation denies with "No pricing   *)
(* tariff available" (and so never grants).                                *)
C2_NoTariffNoPricing ==
    (/\ Done /\ PricedCharger /\ GroupsLoaded
     /\ GroupsWithAccess # {} /\ NoCandidateTariff)
        => result = Denied(NoPricingAvailable)

(* C3: a private, non-billable charger that exists is granted at rate 0 at *)
(* once: the charger lookup is the only query issued, so neither the       *)
(* user's groups nor the tariffs are read.                                 *)
C3_FreeChargerGranted ==
    (ChargerExists /\ FreeCharger)
        => (Done /\ result = Granted(0) /\ lookups = <<"Charger.findById">>)

C3_Witness ==
    /\ Done /\ ChargerExists /\ FreeCharger
    /\ result = Granted(0)
    /\ hour = MaxHour /\ ~HasSite

(* C4: with a priced charger that has a site and a user in at least one    *)
(* group, the evaluation denies with "no access to this site" exactly when *)
(* none of the user's groups lists the charger's site.                     *)
C4_SiteAccessDeniedIff ==
    (Done /\ PricedCharger /\ HasSite /\ GroupsLoaded /\ MemberGroups # {})
        => (result = Denied(SiteAccessDenied) <=> GroupsWithAccess = {})

(* C5: with a priced charger and a user in no group, the evaluation denies *)
(* with "no group membership" after the group lookup, before any site      *)
(* check or tariff lookup.                                                 *)
C5_NoGroupMembership ==
    (Done /\ PricedCharger /\ GroupsLoaded /\ MemberGroups = {})
        => /\ result = Denied(NoGroupMembership)
           /\ lookups = <<"Charger.findById", "UserGroup.find">>

C5_Witness ==
    /\ Done /\ PricedCharger /\ HasSite /\ GroupsLoaded /\ MemberGroups = {}
    /\ result = Denied(NoGroupMembership)
    /\ \E g \in GroupIds : charger.site._id \in dbGroups[g].accessibleSites

(* C6 as stated: a failed lookup or a charger without its site always ends *)
(* in "System error occurred".                                             *)
C6_FaultOrMalformedDenied ==
    (Done /\ (thrown # "none" \/ (ChargerExists /\ ~HasSite)))
        => result = Denied(SystemError)

(* C6 amended: whatever throws inside the evaluation ends it with "System  *)
(* error occurred"; every finished evaluation holds one decision; and a    *)
(* charger without its site is an error only where the site is compared:   *)
(* it is granted free when private and non-billable, denied for no group   *)
(* membership when the user has no group, an error when a group of the     *)
(* user lists any site, and denied site access otherwise.                  *)
C6_FailClosed ==
    /\ thrown # "none" => (Done /\ result = Denied(SystemError))
    /\ Done <=> result # NoResult
    /\ Done => (result.allowed => thrown = "none")
    /\ (Done /\ ChargerExists /\ ~HasSite) =>
          IF FreeCharger THEN result = Granted(0)
          ELSE IF ~GroupsLoaded THEN thrown = "UserGroup.find"
          ELSE IF MemberGroups = {} THEN result = Denied(NoGroupMembership)
          ELSE IF \E g \in MemberGroups : dbGroups[g].accessibleSites # {}
               THEN thrown = "charger.site.toString"
          ELSE result = Denied(SiteAccessDenied)

C6_Witness ==
    /\ Done /\ PricedCharger /\ ~HasSite /\ GroupsLoaded
    /\ thrown = "charger.site.toString"
    /\ result = Denied(SystemError)

(* C7: with exactly one candidate tariff, of non-negative rate and         *)
(* multipliers, the evaluation grants that tariff's rate at the hour.      *)
C7_SingleTariffRate ==
    (/\ Done /\ PricedCharger /\ GroupsLoaded /\ TariffsLoaded
     /\ Cardinality(Candidates) = 1
     /\ \A i \in Candidates : NonNegative(dbTariffs[i]))
        => \A i \in Candidates : result = Granted(RateAtHour(dbTariffs[i]))

(* C8: when the store holds two candidate tariffs for the same group, the  *)
(* evaluation does not grant.                                              *)
C8_DuplicateTariffNotGranted ==
    (/\ Done /\ PricedCharger /\ GroupsLoaded /\ TariffsLoaded
     /\ \A i \in Candidates : NonNegative(dbTariffs[i])
     /\ \E i, j \in Candidates : i < j /\ dbTariffs[i].group = dbTariffs[j].group)
        => ~result.allowed

(* C9: when every tariff of the store has a non-negative rate and          *)
(* non-negative multipliers, a granted rate is non-negative.               *)
C9_RateNonNegative ==
    (/\ Done /\ result.allowed
     /\ TariffsLoaded => \A i \in 1..Len(dbTariffs) : NonNegative(dbTariffs[i]))
        => result.ratePerKwh >= 0

C9_Witness ==
    /\ Done /\ result.allowed /\ TariffsLoaded
    /\ \A i \in 1..Len(dbTariffs) : NonNegative(dbTariffs[i])
    /\ Len(applicableTariffs) >= 2
    /\ \E i \in Candidates :
          /\ FirstInWindow(dbTariffs[i].timeRules) # {}
          /\ RateAtHour(dbTariffs[i]) = result.ratePerKwh
          /\ RateAtHour(dbTariffs[i]) < dbTariffs[i].ratePerKwh
    /\ result.ratePerKwh > 0

(* C10: a grant on a priced charger is backed by a group of the user with  *)
(* access to the charger's site and a tariff of such a group; the three    *)
(* lookups ran in order; only tariffs of groups with access were priced,   *)
(* and the granted rate is the rate of one of them.                        *)
C10_GrantSoundness ==
    (Done /\ result.allowed /\ PricedCharger)
        => /\ lookups = <<"Charger.findById", "UserGroup.find", "Tariff.find">>
           /\ GroupsWithAccess # {}
           /\ Candidates # {}
           /\ \A i \in 1..Len(applicableTariffs) :
                 /\ applicableTariffs[i].charger = chargerId
                 /\ applicableTariffs[i].group \in GroupsWithAccess
           /\ result.ratePerKwh \in CandidateRates \cup CandidateBaseRates

C10_Witness ==
    /\ Done /\ result.allowed /\ PricedCharger
    /\ \E i \in 1..Len(dbTariffs) :
          /\ i \notin Candidates
          /\ dbTariffs[i].group \in MemberGroups
          /\ RateAtHour(dbTariffs[i]) < result.ratePerKwh
          /\ dbTariffs[i].ratePerKwh < result.ratePerKwh

====
